---- MODULE Spec2Model ----
(***************************************************************************)
(* Model of the theme song matching engine of booktrack                    *)
(* (src/lib/matchThemeSong.ts, kept here as src/unnamed/part_001, lines    *)
(* 308-786): deriveVibeVector, jaccardSimilarity, getOverlappingTags,      *)
(* cosineSimilarity, getTopMatchingDimensions, calculatePenalties,         *)
(* generateScoringFactors, matchThemeSong, getTopMatches,                  *)
(* getMatchResultForSong and matchAllBooksUniquely.                        *)
(*                                                                         *)
(* NUMBERS.  The code computes in IEEE doubles; the model computes in      *)
(* fixed point.  Vector components and audio features are integers in      *)
(* thousandths (1000 = 1.0); every score, penalty and contribution is an   *)
(* integer in millionths (1000000 = 1.0).  Audio features and book vector  *)
(* components are drawn from multiples of 0.05, for which every formula of *)
(* deriveVibeVector is exact in thousandths.  Divisions (Jaccard, cosine)  *)
(* and the square root round down where a double rounds to nearest.        *)
(* Two similarities 1 - |b - s| that are equal in thousandths can differ   *)
(* in the last bit in doubles; for the books and songs of the catalogs and *)
(* of FactorBooks and FactorSongs the doubles are equal as well, so the    *)
(* order of the dimensions is that of the code.                            *)
(***************************************************************************)
EXTENDS Integers, Sequences, FiniteSets, TLC

VARIABLES
    books,            \* argument: Book[] of matchAllBooksUniquely
    songs,            \* argument: Song[] of every list operation
    op,               \* the exported function being called, "none" before a call
    pc,               \* position inside the call
    book,             \* argument: the Book of a single-book call
    song,             \* argument: the Song of a pair call
    n,                \* argument: n of getTopMatches
    i,                \* index of the next element the running loop visits
    bestMatch,        \* matchThemeSong's local bestMatch (<<>> is null)
    allPairs,         \* matchAllBooksUniquely's local allPairs, after the sort
    assignments,      \* matchAllBooksUniquely's Map, as its entries in insertion order
    usedSongIds,      \* matchAllBooksUniquely's Set usedSongIds
    assignedBookIds,  \* matchAllBooksUniquely's Set assignedBookIds
    ret,              \* the value the call returned
    err,              \* the message of the Error the call threw, "" if none
    args,             \* the arguments as they were when the call was made
    log,              \* the caller's record of the calls that have returned
    localFactors      \* generateScoringFactors's local array factors

vars == <<books, songs, op, pc, book, song, n, i, bestMatch, allPairs,
          assignments, usedSongIds, assignedBookIds, ret, err, args, log,
          localFactors>>

-----------------------------------------------------------------------------
(* Units *)

\* 1.0 for a vector component or an audio feature
ONE == 1000
\* 1.0 for a score, a penalty or a contribution
UNIT == 1000000

Abs(x) == IF x < 0 THEN -x ELSE x
Min(a, b) == IF a < b THEN a ELSE b
Max(a, b) == IF a > b THEN a ELSE b

\* x * (p / 100) for a score x, p a weight in hundredths
Times(x, p) == (x * p) \div 100

RECURSIVE SqrtSearch(_, _, _)
SqrtSearch(x, lo, hi) ==
    IF lo >= hi THEN lo
    ELSE LET mid == (lo + hi + 1) \div 2
         IN IF mid * mid <= x THEN SqrtSearch(x, mid, hi)
                              ELSE SqrtSearch(x, lo, mid - 1)

\* Math.sqrt of a sum of nine squares of components in 0..ONE, rounded down
Sqrt(x) == SqrtSearch(x, 0, 3 * ONE)

RECURSIVE SumSeq(_)
SumSeq(s) == IF s = <<>> THEN 0 ELSE s[1] + SumSeq(Tail(s))

\* Array.prototype.slice(0, end)
Slice0(s, end) ==
    LET len == Len(s)
        k == IF end < 0 THEN Max(len + end, 0) ELSE Min(end, len)
    IN SubSeq(s, 1, k)

\* Array.prototype.sort with the comparator (a, b) => b.key - a.key, which is
\* stable: elements of equal key keep their order.  s is a sequence of
\* records with a field key.
RECURSIVE SortDesc(_)
SortDesc(s) ==
    IF Len(s) <= 1 THEN s
    ELSE LET front == SortDesc(SubSeq(s, 1, Len(s) - 1))
             x == s[Len(s)]
             k == Cardinality({j \in 1..Len(front) : front[j].key >= x.key})
         IN SubSeq(front, 1, k) \o <<x>> \o SubSeq(front, k + 1, Len(front))

\* the values of a Set built from an array, in insertion order
RECURSIVE Distinct(_)
Distinct(s) ==
    IF s = <<>> THEN <<>>
    ELSE LET front == Distinct(SubSeq(s, 1, Len(s) - 1))
             x == s[Len(s)]
         IN IF \E j \in 1..Len(front) : front[j] = x THEN front
            ELSE Append(front, x)

Range(s) == {s[j] : j \in 1..Len(s)}

\* Array.prototype.filter
RECURSIVE Filter(_, _)
Filter(s, keep) ==
    IF s = <<>> THEN <<>>
    ELSE (IF s[1] \in keep THEN <<s[1]>> ELSE <<>>) \o Filter(Tail(s), keep)

-----------------------------------------------------------------------------
(* Tags *)

\* String.prototype.toLowerCase on the tags of the model
ToLowerCase(t) ==
    CASE t = "Gothic" -> "gothic"
      [] t = "GOTHIC" -> "gothic"
      [] t = "Tender" -> "tender"
      [] t = "Folk" -> "folk"
      [] OTHER -> t

LowerAll(tags) == [j \in 1..Len(tags) |-> ToLowerCase(tags[j])]

-----------------------------------------------------------------------------
(* deriveVibeVector, jaccardSimilarity, getOverlappingTags, cosineSimilarity *)

keys == <<"melancholy", "intimacy", "intensity", "hope", "tension",
          "warmth", "nostalgia", "eeriness", "pace">>

\* mutant of DeriveVibeVector: the warmth term of eeriness weighs 0.5, so the
\* three weights of eeriness add up to 1.3
DeriveVibeVectorHeavyEeriness(audio) ==
    LET energy == audio.energy
        valence == audio.valence
        tempo == audio.tempo
        acousticness == audio.acousticness
        danceability == audio.danceability
        warmthCalc == (acousticness * 5 + valence * 3 + (ONE - energy) * 2) \div 10
    IN [melancholy |-> ONE - valence,
        intimacy   |-> (acousticness * 6 + (ONE - energy) * 4) \div 10,
        intensity  |-> energy,
        hope       |-> (valence * 7 + energy * 3) \div 10,
        tension    |-> (energy * 5 + (ONE - valence) * 5) \div 10,
        warmth     |-> warmthCalc,
        nostalgia  |-> (acousticness * 4 + (ONE - tempo) * 3 + (ONE - energy) * 3) \div 10,
        eeriness   |-> ((ONE - valence) * 5 + (ONE - danceability) * 3
                         + (ONE - warmthCalc) * 5) \div 10,
        pace       |-> (tempo * 6 + energy * 4) \div 10]

DeriveVibeVector(audio) ==
    LET energy == audio.energy
        valence == audio.valence
        tempo == audio.tempo
        acousticness == audio.acousticness
        danceability == audio.danceability
        warmthCalc == (acousticness * 5 + valence * 3 + (ONE - energy) * 2) \div 10
    IN [melancholy |-> ONE - valence,
        intimacy   |-> (acousticness * 6 + (ONE - energy) * 4) \div 10,
        intensity  |-> energy,
        hope       |-> (valence * 7 + energy * 3) \div 10,
        tension    |-> (energy * 5 + (ONE - valence) * 5) \div 10,
        warmth     |-> warmthCalc,
        nostalgia  |-> (acousticness * 4 + (ONE - tempo) * 3 + (ONE - energy) * 3) \div 10,
        eeriness   |-> ((ONE - valence) * 5 + (ONE - danceability) * 3
                         + (ONE - warmthCalc) * 2) \div 10,
        pace       |-> (tempo * 6 + energy * 4) \div 10]

\* mutant of JaccardSimilarity: the denominator is the sum of the two set
\* sizes, not the size of the union
JaccardSimilarityOverSum(tags1, tags2) ==
    LET set1 == Range(LowerAll(tags1))
        set2 == Range(LowerAll(tags2))
        intersection == {x \in set1 : x \in set2}
    IN IF Cardinality(set1) + Cardinality(set2) = 0 THEN 0
       ELSE (Cardinality(intersection) * UNIT)
                \div (Cardinality(set1) + Cardinality(set2))

\* mutant of JaccardSimilarity: the tags are compared as written, without
\* toLowerCase()
JaccardSimilarityCaseSensitive(tags1, tags2) ==
    LET set1 == Range(tags1)
        set2 == Range(tags2)
        intersection == {x \in set1 : x \in set2}
        union == set1 \cup set2
    IN IF Cardinality(union) = 0 THEN 0
       ELSE (Cardinality(intersection) * UNIT) \div Cardinality(union)

JaccardSimilarity(tags1, tags2) ==
    LET set1 == Range(LowerAll(tags1))
        set2 == Range(LowerAll(tags2))
        intersection == {x \in set1 : x \in set2}
        union == set1 \cup set2
    IN IF Cardinality(union) = 0 THEN 0
       ELSE (Cardinality(intersection) * UNIT) \div Cardinality(union)

GetOverlappingTags(tags1, tags2) ==
    LET set1 == Distinct(LowerAll(tags1))
        set2 == Range(LowerAll(tags2))
    IN Filter(set1, set2)

\* mutant of CosineSimilarity: the denominator is magnitude1 squared
CosineSimilarityAsymmetric(vec1, vec2) ==
    LET dotProduct == SumSeq([j \in 1..Len(keys) |-> vec1[keys[j]] * vec2[keys[j]]])
        magnitude1 == Sqrt(SumSeq([j \in 1..Len(keys) |-> vec1[keys[j]] * vec1[keys[j]]]))
        magnitude2 == Sqrt(SumSeq([j \in 1..Len(keys) |-> vec2[keys[j]] * vec2[keys[j]]]))
    IN IF magnitude1 = 0 \/ magnitude2 = 0 THEN 0
       ELSE ((dotProduct * 100) \div ((magnitude1 * magnitude1) \div 10)) * ONE

CosineSimilarity(vec1, vec2) ==
    LET dotProduct == SumSeq([j \in 1..Len(keys) |-> vec1[keys[j]] * vec2[keys[j]]])
        magnitude1 == Sqrt(SumSeq([j \in 1..Len(keys) |-> vec1[keys[j]] * vec1[keys[j]]]))
        magnitude2 == Sqrt(SumSeq([j \in 1..Len(keys) |-> vec2[keys[j]] * vec2[keys[j]]]))
    IN IF magnitude1 = 0 \/ magnitude2 = 0 THEN 0
       ELSE ((dotProduct * 100) \div ((magnitude1 * magnitude2) \div 10)) * ONE

GetTopMatchingDimensions(bookVec, songVec, top) ==
    LET similarities ==
            [j \in 1..Len(keys) |->
                [dimension  |-> keys[j],
                 bookValue  |-> bookVec[keys[j]],
                 songValue  |-> songVec[keys[j]],
                 similarity |-> ONE - Abs(bookVec[keys[j]] - songVec[keys[j]]),
                 key        |-> ONE - Abs(bookVec[keys[j]] - songVec[keys[j]])]]
    IN Slice0(SortDesc(similarities), top)

-----------------------------------------------------------------------------
(* calculatePenalties *)

TAG_WEIGHT == 55
VECTOR_WEIGHT == 35

PENALTY_UPBEAT == -100000
PENALTY_TENSE == -50000
PENALTY_WARM == -80000
PENALTY_SAD == -70000
PENALTY_INTENSE == -50000

PenaltyFactor(label, penalty) ==
    [factor |-> label, detail |-> <<>>, contribution |-> penalty, type |-> "negative"]

\* what one if statement of calculatePenalties does to total and factors
ApplyPenalty(acc, guard, label, penalty) ==
    IF guard
    THEN [total   |-> acc.total + penalty,
          factors |-> Append(acc.factors, PenaltyFactor(label, penalty))]
    ELSE acc

\* mutant of CalculatePenalties: the if statements chained with else, so that
\* only the first rule whose guard is true fires
CalculatePenaltiesElseIf(b, songVec, audio) ==
    LET start == [total |-> 0, factors |-> <<>>]
    IN IF b.vibeVector.melancholy > 700 /\ audio.valence > 700
       THEN ApplyPenalty(start, TRUE, "Song too upbeat for melancholic book", PENALTY_UPBEAT)
       ELSE IF b.vibeVector.tension > 700 /\ audio.energy < 300
       THEN ApplyPenalty(start, TRUE, "Song too mellow for high-tension book", PENALTY_TENSE)
       ELSE IF b.vibeVector.eeriness > 700 /\ songVec.warmth > 700
       THEN ApplyPenalty(start, TRUE, "Song too warm for eerie book", PENALTY_WARM)
       ELSE IF b.vibeVector.hope > 700 /\ audio.valence < 200
       THEN ApplyPenalty(start, TRUE, "Song too sad for hopeful book", PENALTY_SAD)
       ELSE IF b.vibeVector.intensity > 800 /\ audio.energy < 250
       THEN ApplyPenalty(start, TRUE, "Song too mellow for intense book", PENALTY_INTENSE)
       ELSE start

\* mutant of CalculatePenalties: the comparison of the sad rule is reversed,
\* so that it overlaps the upbeat rule
CalculatePenaltiesSadReversed(b, songVec, audio) ==
    LET start == [total |-> 0, factors |-> <<>>]
        \* Melancholic book + happy song
        r1 == ApplyPenalty(start,
                  b.vibeVector.melancholy > 700 /\ audio.valence > 700,
                  "Song too upbeat for melancholic book", PENALTY_UPBEAT)
        \* Tense book + low-energy song
        r2 == ApplyPenalty(r1,
                  b.vibeVector.tension > 700 /\ audio.energy < 300,
                  "Song too mellow for high-tension book", PENALTY_TENSE)
        \* Eerie book + warm song
        r3 == ApplyPenalty(r2,
                  b.vibeVector.eeriness > 700 /\ songVec.warmth > 700,
                  "Song too warm for eerie book", PENALTY_WARM)
        \* Hopeful book + very sad song
        r4 == ApplyPenalty(r3,
                  b.vibeVector.hope > 700 /\ audio.valence > 200,
                  "Song too sad for hopeful book", PENALTY_SAD)
        \* Intense book + mellow song
        r5 == ApplyPenalty(r4,
                  b.vibeVector.intensity > 800 /\ audio.energy < 250,
                  "Song too mellow for intense book", PENALTY_INTENSE)
    IN r5

\* mutant of CalculatePenalties: every comparison admits the threshold itself
CalculatePenaltiesNonStrict(b, songVec, audio) ==
    LET start == [total |-> 0, factors |-> <<>>]
        r1 == ApplyPenalty(start,
                  b.vibeVector.melancholy >= 700 /\ audio.valence >= 700,
                  "Song too upbeat for melancholic book", PENALTY_UPBEAT)
        r2 == ApplyPenalty(r1,
                  b.vibeVector.tension >= 700 /\ audio.energy <= 300,
                  "Song too mellow for high-tension book", PENALTY_TENSE)
        r3 == ApplyPenalty(r2,
                  b.vibeVector.eeriness >= 700 /\ songVec.warmth >= 700,
                  "Song too warm for eerie book", PENALTY_WARM)
        r4 == ApplyPenalty(r3,
                  b.vibeVector.hope >= 700 /\ audio.valence <= 200,
                  "Song too sad for hopeful book", PENALTY_SAD)
        r5 == ApplyPenalty(r4,
                  b.vibeVector.intensity >= 800 /\ audio.energy <= 250,
                  "Song too mellow for intense book", PENALTY_INTENSE)
    IN r5

CalculatePenalties(b, songVec, audio) ==
    LET start == [total |-> 0, factors |-> <<>>]
        \* Melancholic book + happy song
        r1 == ApplyPenalty(start,
                  b.vibeVector.melancholy > 700 /\ audio.valence > 700,
                  "Song too upbeat for melancholic book", PENALTY_UPBEAT)
        \* Tense book + low-energy song
        r2 == ApplyPenalty(r1,
                  b.vibeVector.tension > 700 /\ audio.energy < 300,
                  "Song too mellow for high-tension book", PENALTY_TENSE)
        \* Eerie book + warm song
        r3 == ApplyPenalty(r2,
                  b.vibeVector.eeriness > 700 /\ songVec.warmth > 700,
                  "Song too warm for eerie book", PENALTY_WARM)
        \* Hopeful book + very sad song
        r4 == ApplyPenalty(r3,
                  b.vibeVector.hope > 700 /\ audio.valence < 200,
                  "Song too sad for hopeful book", PENALTY_SAD)
        \* Intense book + mellow song
        r5 == ApplyPenalty(r4,
                  b.vibeVector.intensity > 800 /\ audio.energy < 250,
                  "Song too mellow for intense book", PENALTY_INTENSE)
    IN r5

-----------------------------------------------------------------------------
(* generateScoringFactors *)

\* the array sorted by (a, b) => Math.abs(b.contribution) - Math.abs(a.contribution)
Vals(s) == [j \in 1..Len(s) |-> s[j].val]

SortByContribution(factors) ==
    Vals(SortDesc([j \in 1..Len(factors) |->
                     [key |-> Abs(factors[j].contribution), val |-> factors[j]]]))

\* mutant of DimensionFactors: a similarity of exactly 0.8 gets a factor too
RECURSIVE DimensionFactorsAtThreshold(_, _)
DimensionFactorsAtThreshold(topDimensions, vectorScore) ==
    IF topDimensions = <<>> THEN <<>>
    ELSE LET dim == topDimensions[1]
         IN (IF dim.similarity >= 800
             THEN <<[factor       |-> "Strong alignment",
                     detail       |-> <<dim.dimension>>,
                     contribution |-> Times(Times(vectorScore, VECTOR_WEIGHT), 30),
                     type         |-> "positive"]>>
             ELSE <<>>)
            \o DimensionFactorsAtThreshold(Tail(topDimensions), vectorScore)

\* the factors pushed for the top dimensions, in their order
RECURSIVE DimensionFactors(_, _)
DimensionFactors(topDimensions, vectorScore) ==
    IF topDimensions = <<>> THEN <<>>
    ELSE LET dim == topDimensions[1]
         IN (IF dim.similarity > 800
             THEN <<[factor       |-> "Strong alignment",
                     detail       |-> <<dim.dimension>>,
                     contribution |-> Times(Times(vectorScore, VECTOR_WEIGHT), 30),
                     type         |-> "positive"]>>
             ELSE <<>>)
            \o DimensionFactors(Tail(topDimensions), vectorScore)

\* mutant of FactorsBeforeSort: the shared tags are taken in the order of the
\* song's tag list
FactorsBeforeSortSongOrder(b, s, songVec, tagScore, vectorScore, penaltyFactors) ==
    LET overlappingTags == GetOverlappingTags(s.vibeTags, b.vibeTags)
        tagFactors ==
            IF Len(overlappingTags) > 0
            THEN <<[factor       |-> "Shared vibes",
                    detail       |-> Slice0(overlappingTags, 3),
                    contribution |-> Times(tagScore, TAG_WEIGHT),
                    type         |-> "positive"]>>
            ELSE <<>>
        topDimensions == GetTopMatchingDimensions(b.vibeVector, songVec, 2)
    IN tagFactors \o DimensionFactors(topDimensions, vectorScore) \o penaltyFactors

\* the local array factors before the final sort and slice
FactorsBeforeSort(b, s, songVec, tagScore, vectorScore, penaltyFactors) ==
    LET overlappingTags == GetOverlappingTags(b.vibeTags, s.vibeTags)
        tagFactors ==
            IF Len(overlappingTags) > 0
            THEN <<[factor       |-> "Shared vibes",
                    detail       |-> Slice0(overlappingTags, 3),
                    contribution |-> Times(tagScore, TAG_WEIGHT),
                    type         |-> "positive"]>>
            ELSE <<>>
        topDimensions == GetTopMatchingDimensions(b.vibeVector, songVec, 2)
    IN tagFactors \o DimensionFactors(topDimensions, vectorScore) \o penaltyFactors

\* mutant of GenerateScoringFactors: the comparator leaves out Math.abs
GenerateScoringFactorsSigned(b, s, songVec, tagScore, vectorScore, penaltyFactors) ==
    LET factors == FactorsBeforeSort(b, s, songVec, tagScore, vectorScore, penaltyFactors)
    IN Slice0(Vals(SortDesc([j \in 1..Len(factors) |->
                               [key |-> factors[j].contribution, val |-> factors[j]]])), 3)

\* mutant of GenerateScoringFactors: the slice(0, 3) is left out
GenerateScoringFactorsNoSlice(b, s, songVec, tagScore, vectorScore, penaltyFactors) ==
    LET factors == FactorsBeforeSort(b, s, songVec, tagScore, vectorScore, penaltyFactors)
    IN SortByContribution(factors)

GenerateScoringFactors(b, s, songVec, tagScore, vectorScore, penaltyFactors) ==
    LET factors == FactorsBeforeSort(b, s, songVec, tagScore, vectorScore, penaltyFactors)
    IN Slice0(SortByContribution(factors), 3)

-----------------------------------------------------------------------------
(* The MatchResult of one pair.  The code repeats the same statements in    *)
(* matchThemeSong, getTopMatches, getMatchResultForSong and                 *)
(* matchAllBooksUniquely; each copy is modelled by its own definition.      *)

\* the loop body of matchThemeSong up to the construction of result
MatchThemeSongResult(b, s) ==
    LET songVibeVector == DeriveVibeVector(s.audio)
        tagScore == JaccardSimilarity(b.vibeTags, s.vibeTags)
        vectorScore == CosineSimilarity(b.vibeVector, songVibeVector)
        penalties == CalculatePenalties(b, songVibeVector, s.audio)
        totalScore == Times(tagScore, TAG_WEIGHT)
                      + Times(vectorScore, VECTOR_WEIGHT)
                      + penalties.total
        topFactors == GenerateScoringFactors(b, s, songVibeVector, tagScore,
                                             vectorScore, penalties.factors)
    IN [song |-> s, totalScore |-> totalScore, tagScore |-> tagScore,
        vectorScore |-> vectorScore, penaltyScore |-> penalties.total,
        topFactors |-> topFactors]

\* mutant of GetTopMatchesResult: the penalties are left out of totalScore
GetTopMatchesResultNoPenalty(b, s) ==
    LET songVibeVector == DeriveVibeVector(s.audio)
        tagScore == JaccardSimilarity(b.vibeTags, s.vibeTags)
        vectorScore == CosineSimilarity(b.vibeVector, songVibeVector)
        penalties == CalculatePenalties(b, songVibeVector, s.audio)
        totalScore == Times(tagScore, TAG_WEIGHT)
                      + Times(vectorScore, VECTOR_WEIGHT)
        topFactors == GenerateScoringFactors(b, s, songVibeVector, tagScore,
                                             vectorScore, penalties.factors)
    IN [song |-> s, totalScore |-> totalScore, tagScore |-> tagScore,
        vectorScore |-> vectorScore, penaltyScore |-> penalties.total,
        topFactors |-> topFactors]

\* the loop body of getTopMatches
GetTopMatchesResult(b, s) ==
    LET songVibeVector == DeriveVibeVector(s.audio)
        tagScore == JaccardSimilarity(b.vibeTags, s.vibeTags)
        vectorScore == CosineSimilarity(b.vibeVector, songVibeVector)
        penalties == CalculatePenalties(b, songVibeVector, s.audio)
        totalScore == Times(tagScore, TAG_WEIGHT)
                      + Times(vectorScore, VECTOR_WEIGHT)
                      + penalties.total
        topFactors == GenerateScoringFactors(b, s, songVibeVector, tagScore,
                                             vectorScore, penalties.factors)
    IN [song |-> s, totalScore |-> totalScore, tagScore |-> tagScore,
        vectorScore |-> vectorScore, penaltyScore |-> penalties.total,
        topFactors |-> topFactors]

\* the penaltyScore of the last getMatchResultForSong call in the log l, 0 if
\* there is none
RECURSIVE LastPenaltyScore(_)
LastPenaltyScore(l) ==
    IF l = <<>> THEN 0
    ELSE IF l[Len(l)].op = "getMatchResultForSong" THEN l[Len(l)].ret[1].penaltyScore
    ELSE LastPenaltyScore(SubSeq(l, 1, Len(l) - 1))

\* mutant of GetMatchResultForSong: the penalty total is a module-level
\* variable that is not reset, so the penalties of earlier calls stay in it
GetMatchResultForSongKeepsTotal(b, s) ==
    LET songVibeVector == DeriveVibeVector(s.audio)
        tagScore == JaccardSimilarity(b.vibeTags, s.vibeTags)
        vectorScore == CosineSimilarity(b.vibeVector, songVibeVector)
        penalties == CalculatePenalties(b, songVibeVector, s.audio)
        total == LastPenaltyScore(log) + penalties.total
        totalScore == Times(tagScore, TAG_WEIGHT)
                      + Times(vectorScore, VECTOR_WEIGHT)
                      + total
        topFactors == GenerateScoringFactors(b, s, songVibeVector, tagScore,
                                             vectorScore, penalties.factors)
    IN [song |-> s, totalScore |-> totalScore, tagScore |-> tagScore,
        vectorScore |-> vectorScore, penaltyScore |-> total,
        topFactors |-> topFactors]

GetMatchResultForSong(b, s) ==
    LET songVibeVector == DeriveVibeVector(s.audio)
        tagScore == JaccardSimilarity(b.vibeTags, s.vibeTags)
        vectorScore == CosineSimilarity(b.vibeVector, songVibeVector)
        penalties == CalculatePenalties(b, songVibeVector, s.audio)
        totalScore == Times(tagScore, TAG_WEIGHT)
                      + Times(vectorScore, VECTOR_WEIGHT)
                      + penalties.total
        topFactors == GenerateScoringFactors(b, s, songVibeVector, tagScore,
                                             vectorScore, penalties.factors)
    IN [song |-> s, totalScore |-> totalScore, tagScore |-> tagScore,
        vectorScore |-> vectorScore, penaltyScore |-> penalties.total,
        topFactors |-> topFactors]

\* JavaScript values the fixed-point numbers do not have: the number NaN, and
\* an array whose order the language leaves to the implementation
NaN == "NaN"
ImplementationDefined == "implementation-defined"

\* the properties of an AudioFeatures record
AudioFeatures == {"energy", "valence", "tempo", "acousticness", "danceability"}

Has(r, f) == f \in DOMAIN r

\* the record r over fields, with v where r has no such property
Filled(r, fields, v) == [f \in fields |-> IF Has(r, f) THEN r[f] ELSE v]

TypeError == [pc |-> "thrown", ret |-> <<>>, err |-> "TypeError"]

\* getMatchResultForSong on objects that may lack properties.  Reading a
\* property of undefined (audio at the destructuring, a tag list at .map, the
\* vibeVector at vec1[key]) throws a TypeError.  A missing number reads as
\* undefined: arithmetic on it gives NaN and every comparison with it is
\* false, so vectorScore and totalScore are NaN, no guard that reads the
\* missing number or a warmth derived from it fires, and both sorts of
\* generateScoringFactors run with a comparator that returns NaN.
GetMatchResultForSongOutcome(b, s) ==
    IF ~Has(s, "audio") THEN TypeError
    ELSE IF ~Has(b, "vibeTags") \/ ~Has(s, "vibeTags") THEN TypeError
    ELSE IF ~Has(b, "vibeVector") THEN TypeError
    ELSE IF /\ \A f \in AudioFeatures : Has(s.audio, f)
            /\ \A k \in Range(keys) : Has(b.vibeVector, k)
    THEN [pc |-> "returned", ret |-> <<GetMatchResultForSong(b, s)>>, err |-> ""]
    ELSE LET \* values for the missing numbers under which the guards that read
             \* them are false: 0.5 for a feature, 0 for a component and for
             \* the warmth
             audio == Filled(s.audio, AudioFeatures, ONE \div 2)
             derived == DeriveVibeVector(audio)
             songVibeVector ==
                 IF \E f \in {"acousticness", "valence", "energy"} : ~Has(s.audio, f)
                 THEN [derived EXCEPT !.warmth = 0] ELSE derived
             bookRead ==
                 [vibeVector |-> Filled(b.vibeVector, Range(keys), 0)]
             tagScore == JaccardSimilarity(b.vibeTags, s.vibeTags)
             penalties == CalculatePenalties(bookRead, songVibeVector, audio)
         IN [pc |-> "returned",
             ret |-> <<[song |-> s, totalScore |-> NaN, tagScore |-> tagScore,
                        vectorScore |-> NaN, penaltyScore |-> penalties.total,
                        topFactors |-> ImplementationDefined]>>,
             err |-> ""]

\* mutant of ScoredPairResult: the penalties are left out of totalScore
ScoredPairResultNoPenalty(b, s) ==
    LET songVibeVector == DeriveVibeVector(s.audio)
        tagScore == JaccardSimilarity(b.vibeTags, s.vibeTags)
        vectorScore == CosineSimilarity(b.vibeVector, songVibeVector)
        penalties == CalculatePenalties(b, songVibeVector, s.audio)
        totalScore == Times(tagScore, TAG_WEIGHT)
                      + Times(vectorScore, VECTOR_WEIGHT)
        topFactors == GenerateScoringFactors(b, s, songVibeVector, tagScore,
                                             vectorScore, penalties.factors)
    IN [song |-> s, totalScore |-> totalScore, tagScore |-> tagScore,
        vectorScore |-> vectorScore, penaltyScore |-> penalties.total,
        topFactors |-> topFactors]

\* mutant of ScoredPairResult: the explanation factors are left out
ScoredPairResultNoFactors(b, s) ==
    LET songVibeVector == DeriveVibeVector(s.audio)
        tagScore == JaccardSimilarity(b.vibeTags, s.vibeTags)
        vectorScore == CosineSimilarity(b.vibeVector, songVibeVector)
        penalties == CalculatePenalties(b, songVibeVector, s.audio)
        totalScore == Times(tagScore, TAG_WEIGHT)
                      + Times(vectorScore, VECTOR_WEIGHT)
                      + penalties.total
        topFactors == GenerateScoringFactors(b, s, songVibeVector, tagScore,
                                             vectorScore, penalties.factors)
    IN [song |-> s, totalScore |-> totalScore, tagScore |-> tagScore,
        vectorScore |-> vectorScore, penaltyScore |-> penalties.total,
        topFactors |-> <<>>]

\* the body of the nested loops of matchAllBooksUniquely
ScoredPairResult(b, s) ==
    LET songVibeVector == DeriveVibeVector(s.audio)
        tagScore == JaccardSimilarity(b.vibeTags, s.vibeTags)
        vectorScore == CosineSimilarity(b.vibeVector, songVibeVector)
        penalties == CalculatePenalties(b, songVibeVector, s.audio)
        totalScore == Times(tagScore, TAG_WEIGHT)
                      + Times(vectorScore, VECTOR_WEIGHT)
                      + penalties.total
        topFactors == GenerateScoringFactors(b, s, songVibeVector, tagScore,
                                             vectorScore, penalties.factors)
    IN [song |-> s, totalScore |-> totalScore, tagScore |-> tagScore,
        vectorScore |-> vectorScore, penaltyScore |-> penalties.total,
        topFactors |-> topFactors]

-----------------------------------------------------------------------------
(* matchThemeSong *)

\* mutant of KeepBest: a song of equal score replaces the best
KeepBestLast(best, result) ==
    IF best = <<>> \/ result.totalScore >= best[1].totalScore
    THEN <<result>>
    ELSE best

\* "Keep the best match": bestMatch after the if statement; <<>> is null
KeepBest(best, result) ==
    IF best = <<>> \/ result.totalScore > best[1].totalScore
    THEN <<result>>
    ELSE best

\* mutant of MatchThemeSongExit: null is returned instead of the throw
MatchThemeSongExitNull(best) ==
    [pc |-> "returned", ret |-> best, err |-> ""]

\* what follows the loop: throw when bestMatch is null, else return it
MatchThemeSongExit(best) ==
    IF best = <<>>
    THEN [pc |-> "thrown", ret |-> <<>>, err |-> "No songs available for matching"]
    ELSE [pc |-> "returned", ret |-> best, err |-> ""]

-----------------------------------------------------------------------------
(* getTopMatches *)

\* the array sorted by (a, b) => b.totalScore - a.totalScore
SortByTotalScore(results) ==
    Vals(SortDesc([j \in 1..Len(results) |->
                     [key |-> results[j].totalScore, val |-> results[j]]]))

Reverse(q) == [j \in 1..Len(q) |-> q[Len(q) + 1 - j]]

\* mutant of GetTopMatches: an unstable sort, results of equal score reversed
GetTopMatchesUnstable(b, ss, top) ==
    LET results == [j \in 1..Len(ss) |-> GetTopMatchesResult(b, ss[j])]
    IN Slice0(SortByTotalScore(Reverse(results)), top)

\* mutant of GetTopMatches: for an empty list a result without a song is
\* returned
GetTopMatchesPadded(b, ss, top) ==
    LET results == [j \in 1..Len(ss) |-> GetTopMatchesResult(b, ss[j])]
    IN IF ss = <<>> THEN <<[totalScore |-> 0]>>
       ELSE Slice0(SortByTotalScore(results), top)

GetTopMatches(b, ss, top) ==
    LET results == [j \in 1..Len(ss) |-> GetTopMatchesResult(b, ss[j])]
    IN Slice0(SortByTotalScore(results), top)

\* mutant of ArgsAfterGetTopMatches: the sort is applied to songs itself
ArgsAfterGetTopMatchesSortsSongs(b, ss) ==
    LET results == [j \in 1..Len(ss) |-> GetTopMatchesResult(b, ss[j])]
        sorted == SortByTotalScore(results)
    IN [book |-> b, songs |-> [j \in 1..Len(ss) |-> sorted[j].song]]

\* the caller's book and songs once getTopMatches has returned: the loop only
\* reads songs, and sort() reorders results, an array the call created
ArgsAfterGetTopMatches(b, ss) == [book |-> b, songs |-> ss]

-----------------------------------------------------------------------------
(* matchAllBooksUniquely *)

\* allPairs after the nested loops: book-major, song-minor
AllPairs(bs, ss) ==
    [j \in 1..(Len(bs) * Len(ss)) |->
        LET b == bs[((j - 1) \div Len(ss)) + 1]
            s == ss[((j - 1) % Len(ss)) + 1]
        IN [book |-> b, song |-> s, result |-> ScoredPairResult(b, s)]]

\* mutant of SortedPairs: allPairs is left in the order of the nested loops
SortedPairsUnsorted(bs, ss) == AllPairs(bs, ss)

\* mutant of SortedPairs: an unstable sort, pairs of equal score reversed
SortedPairsTiesReversed(bs, ss) ==
    LET pairs == Reverse(AllPairs(bs, ss))
    IN Vals(SortDesc([j \in 1..Len(pairs) |->
                        [key |-> pairs[j].result.totalScore, val |-> pairs[j]]]))

\* mutant of SortedPairs: the comparator is a - b, lowest score first
SortedPairsAscending(bs, ss) ==
    LET pairs == AllPairs(bs, ss)
    IN Vals(SortDesc([j \in 1..Len(pairs) |->
                        [key |-> 0 - pairs[j].result.totalScore, val |-> pairs[j]]]))

\* allPairs.sort((a, b) => b.result.totalScore - a.result.totalScore)
SortedPairs(bs, ss) ==
    LET pairs == AllPairs(bs, ss)
    IN Vals(SortDesc([j \in 1..Len(pairs) |->
                        [key |-> pairs[j].result.totalScore, val |-> pairs[j]]]))

\* mutant of SkipPair: only the book is looked up
SkipPairBookOnly(bookId, songId, assignedIds, usedIds) ==
    bookId \in assignedIds

\* mutant of SkipPair: no pair is skipped
SkipPairNever(bookId, songId, assignedIds, usedIds) ==
    FALSE

\* "Skip if book already assigned or song already used"
SkipPair(bookId, songId, assignedIds, usedIds) ==
    bookId \in assignedIds \/ songId \in usedIds

\* Map.prototype.set on a Map kept as its entries in insertion order
MapSet(m, k, v) ==
    IF \E j \in 1..Len(m) : m[j].key = k
    THEN [j \in 1..Len(m) |-> IF m[j].key = k THEN [key |-> k, value |-> v] ELSE m[j]]
    ELSE Append(m, [key |-> k, value |-> v])

\* mutant of AllAssigned: the loop stops one book early
AllAssignedEarly(assignedIds, bs) == Cardinality(assignedIds) >= Len(bs) - 1

\* mutant of AllAssigned: the loop stops at the first assignment
AllAssignedAfterFirst(assignedIds, bs) == Cardinality(assignedIds) >= 1

\* "Check if all books are assigned"
AllAssigned(assignedIds, bs) == Cardinality(assignedIds) = Len(bs)

-----------------------------------------------------------------------------
(* Inputs *)

MaxBooks == 2
MaxSongs == 2
MaxN == 3

Vec(me, im, it, ho, te, wa, no, ee, pa) ==
    [melancholy |-> me, intimacy |-> im, intensity |-> it, hope |-> ho,
     tension |-> te, warmth |-> wa, nostalgia |-> no, eeriness |-> ee, pace |-> pa]

Audio(en, va, te, ac, da) ==
    [energy |-> en, valence |-> va, tempo |-> te, acousticness |-> ac,
     danceability |-> da]

\* a melancholic book (the test fixture), the same book under a second id,
\* and an eerie, tense, intense book that repeats the first id
BookCatalog ==
    { [id |-> "b1", vibeTags |-> <<"melancholic", "nostalgic", "Tender">>,
       vibeVector |-> Vec(800, 700, 400, 300, 400, 500, 900, 200, 300)],
      [id |-> "b2", vibeTags |-> <<"melancholic", "nostalgic", "Tender">>,
       vibeVector |-> Vec(800, 700, 400, 300, 400, 500, 900, 200, 300)],
      [id |-> "b1", vibeTags |-> <<"Gothic", "melancholic", "gothic">>,
       vibeVector |-> Vec(750, 300, 850, 200, 800, 200, 400, 900, 600)] }

\* a quiet acoustic song (the fixture's perfect match), the same song under a
\* second id, a warm and happy song that repeats the first id, and a dance song
SongCatalog ==
    { [id |-> "s1", vibeTags |-> <<"melancholic", "nostalgic", "Folk">>,
       audio |-> Audio(250, 200, 300, 900, 250)],
      [id |-> "s2", vibeTags |-> <<"melancholic", "nostalgic", "Folk">>,
       audio |-> Audio(250, 200, 300, 900, 250)],
      [id |-> "s1", vibeTags |-> <<"GOTHIC", "melancholic", "tender">>,
       audio |-> Audio(200, 850, 300, 900, 250)],
      [id |-> "s3", vibeTags |-> <<"upbeat", "dance">>,
       audio |-> Audio(900, 850, 850, 100, 900)] }

SeqsUpTo(S, k) == UNION {[1..m -> S] : m \in 0..k}

\* the values of n: negative, zero, up to and above the number of songs
TopNs == (-1)..MaxN

BookLists == SeqsUpTo(BookCatalog, MaxBooks)
SongLists == SeqsUpTo(SongCatalog, MaxSongs)

\* books and songs of the pair operations: every field a penalty guard reads
\* takes a value below, at and above its threshold
PairBooks ==
    { [id |-> "b1", vibeTags |-> <<"melancholic", "Gothic">>,
       vibeVector |-> Vec(me, 500, it, ho, te, 500, 500, ee, 500)] :
        me \in {700, 750}, it \in {800, 850}, ho \in {700, 750},
        te \in {700, 750}, ee \in {700, 750} }

PairSongs ==
    { [id |-> "s1", vibeTags |-> tg, audio |-> Audio(en, va, 500, ac, 500)] :
        tg \in {<<"gothic", "folk">>, <<"folk">>},
        en \in {200, 250, 300, 500}, va \in {150, 200, 500, 700, 750},
        ac \in {0, 700, 950} }

\* books and songs of the repeated calls: the two books of id b1 and the two
\* songs of id s1
MaxCalls == 2
RepeatBooks == {b \in BookCatalog : b.id = "b1"}
RepeatSongs == {s \in SongCatalog : s.id = "s1"}

\* books and songs of the generateScoringFactors calls: the catalogs, a song
\* whose derived vector is 0.5 throughout and shares four tags with the first
\* of three books: one equal to that vector in three dimensions, one equal in
\* one dimension and 0.2 away in another, one 0.5 away in every dimension
FactorBooks ==
    BookCatalog \cup
    { [id |-> "b3", vibeTags |-> <<"Tender", "Gothic", "melancholic", "GOTHIC", "nostalgic">>,
       vibeVector |-> Vec(500, 500, 500, 0, 0, 0, 0, 0, 0)],
      [id |-> "b4", vibeTags |-> <<"epic", "folk">>,
       vibeVector |-> Vec(500, 300, 0, 0, 0, 0, 0, 0, 0)],
      [id |-> "b5", vibeTags |-> <<"epic">>,
       vibeVector |-> Vec(1000, 1000, 0, 1000, 0, 1000, 0, 1000, 0)] }

FactorSongs ==
    SongCatalog \cup
    { [id |-> "s4", vibeTags |-> <<"nostalgic", "gothic", "melancholic", "tender", "folk">>,
       audio |-> Audio(500, 500, 500, 500, 500)] }

\* the record r without the property f
Without(r, f) == [x \in DOMAIN r \ {f} |-> r[x]]

\* books and songs with a property missing: the tag list, the vector or the
\* audio record, one component of the vector, one feature of the audio
MalformedBooks ==
    {Without(b, "vibeTags") : b \in BookCatalog}
        \cup {Without(b, "vibeVector") : b \in BookCatalog}
        \cup {[b EXCEPT !.vibeVector = Without(b.vibeVector, k)] :
                 b \in BookCatalog, k \in Range(keys)}

MalformedSongs ==
    {Without(s, "vibeTags") : s \in SongCatalog}
        \cup {Without(s, "audio") : s \in SongCatalog}
        \cup {[s EXCEPT !.audio = Without(s.audio, f)] :
                 s \in SongCatalog, f \in AudioFeatures}

\* tag lists of the jaccardSimilarity calls: three spellings of one tag and
\* another tag, repeats allowed
MaxTags == 2
Tags == {"gothic", "Gothic", "GOTHIC", "folk"}
TagLists == SeqsUpTo(Tags, MaxTags)

\* audio records of the deriveVibeVector calls: every feature at 0, 0.5 and 1
Levels == {0, ONE \div 2, ONE}
AudioGrid ==
    { Audio(en, va, te, ac, da) :
        en \in Levels, va \in Levels, te \in Levels, ac \in Levels, da \in Levels }

\* vectors of the cosineSimilarity calls: the all-zero vector, the book vectors
\* and the vectors derived from the songs
Vectors ==
    {Vec(0, 0, 0, 0, 0, 0, 0, 0, 0)}
        \cup {b.vibeVector : b \in BookCatalog}
        \cup {DeriveVibeVector(s.audio) : s \in SongCatalog}

NoBook == [id |-> "", vibeTags |-> <<>>, vibeVector |-> Vec(0, 0, 0, 0, 0, 0, 0, 0, 0)]
NoSong == [id |-> "", vibeTags |-> <<>>, audio |-> Audio(0, 0, 0, 0, 0)]

-----------------------------------------------------------------------------
(* The calls *)

Init ==
    /\ op = "none" /\ pc = "idle"
    /\ books = <<>> /\ songs = <<>>
    /\ book = NoBook /\ song = NoSong /\ n = 0 /\ i = 0
    /\ bestMatch = <<>> /\ allPairs = <<>> /\ assignments = <<>>
    /\ usedSongIds = {} /\ assignedBookIds = {}
    /\ ret = <<>> /\ err = ""
    /\ args = <<>> /\ log = <<>> /\ localFactors = <<>>

\* matchThemeSong(b, ss): entry
CallMatchThemeSong(b, ss) ==
    /\ pc = "idle"
    /\ op' = "matchThemeSong" /\ pc' = "loop"
    /\ args' = <<b, ss>>
    /\ book' = b /\ songs' = ss /\ i' = 1 /\ bestMatch' = <<>>
    /\ UNCHANGED <<books, song, n, allPairs, assignments, usedSongIds,
                   assignedBookIds, ret, err, log, localFactors>>

\* one iteration of for (const song of songs)
MatchThemeSongStep ==
    /\ op = "matchThemeSong" /\ pc = "loop" /\ i <= Len(songs)
    /\ bestMatch' = KeepBest(bestMatch, MatchThemeSongResult(book, songs[i]))
    /\ i' = i + 1
    /\ UNCHANGED <<books, songs, op, pc, book, song, n, allPairs, assignments,
                   usedSongIds, assignedBookIds, ret, err, args, log, localFactors>>

\* the loop is over: throw or return
MatchThemeSongEnd ==
    /\ op = "matchThemeSong" /\ pc = "loop" /\ i > Len(songs)
    /\ LET out == MatchThemeSongExit(bestMatch)
       IN pc' = out.pc /\ ret' = out.ret /\ err' = out.err
    /\ UNCHANGED <<books, songs, op, book, song, n, i, bestMatch, allPairs,
                   assignments, usedSongIds, assignedBookIds, args, log, localFactors>>

\* getTopMatches(b, ss, k)
CallGetTopMatches(b, ss, k) ==
    /\ pc = "idle"
    /\ op' = "getTopMatches" /\ pc' = "returned"
    /\ args' = <<b, ss, k>>
    /\ LET after == ArgsAfterGetTopMatches(b, ss)
       IN book' = after.book /\ songs' = after.songs
    /\ n' = k
    /\ ret' = GetTopMatches(b, ss, k)
    /\ UNCHANGED <<books, song, i, bestMatch, allPairs, assignments,
                   usedSongIds, assignedBookIds, err, log, localFactors>>

\* getMatchResultForSong(b, s) with objects that may lack properties
CallGetMatchResultForSongAny(b, s) ==
    /\ pc = "idle"
    /\ op' = "getMatchResultForSong"
    /\ args' = <<b, s>>
    /\ book' = b /\ song' = s
    /\ LET out == GetMatchResultForSongOutcome(b, s)
       IN pc' = out.pc /\ ret' = out.ret /\ err' = out.err
    /\ UNCHANGED <<books, songs, n, i, bestMatch, allPairs, assignments,
                   usedSongIds, assignedBookIds, log, localFactors>>

\* getMatchResultForSong(b, s)
CallGetMatchResultForSong(b, s) ==
    /\ pc = "idle"
    /\ op' = "getMatchResultForSong" /\ pc' = "returned"
    /\ args' = <<b, s>>
    /\ book' = b /\ song' = s
    /\ ret' = <<GetMatchResultForSong(b, s)>>
    /\ UNCHANGED <<books, songs, n, i, bestMatch, allPairs, assignments,
                   usedSongIds, assignedBookIds, err, log, localFactors>>

\* calculatePenalties(b, deriveVibeVector(s.audio), s.audio)
CallCalculatePenalties(b, s) ==
    /\ pc = "idle"
    /\ op' = "calculatePenalties" /\ pc' = "returned"
    /\ args' = <<b, DeriveVibeVector(s.audio), s.audio>>
    /\ book' = b /\ song' = s
    /\ ret' = <<CalculatePenalties(b, DeriveVibeVector(s.audio), s.audio)>>
    /\ UNCHANGED <<books, songs, n, i, bestMatch, allPairs, assignments,
                   usedSongIds, assignedBookIds, err, log, localFactors>>

\* deriveVibeVector(audio)
CallDeriveVibeVector(audio) ==
    /\ pc = "idle"
    /\ op' = "deriveVibeVector" /\ pc' = "returned"
    /\ args' = <<audio>>
    /\ song' = [NoSong EXCEPT !.audio = audio]
    /\ ret' = <<DeriveVibeVector(audio)>>
    /\ UNCHANGED <<books, songs, book, n, i, bestMatch, allPairs, assignments,
                   usedSongIds, assignedBookIds, err, log, localFactors>>

\* jaccardSimilarity(tags1, tags2)
CallJaccardSimilarity(tags1, tags2) ==
    /\ pc = "idle"
    /\ op' = "jaccardSimilarity" /\ pc' = "returned"
    /\ args' = <<tags1, tags2>>
    /\ ret' = <<JaccardSimilarity(tags1, tags2)>>
    /\ UNCHANGED <<books, songs, book, song, n, i, bestMatch, allPairs,
                   assignments, usedSongIds, assignedBookIds, err, log, localFactors>>

\* cosineSimilarity(vec1, vec2)
CallCosineSimilarity(vec1, vec2) ==
    /\ pc = "idle"
    /\ op' = "cosineSimilarity" /\ pc' = "returned"
    /\ args' = <<vec1, vec2>>
    /\ ret' = <<CosineSimilarity(vec1, vec2)>>
    /\ UNCHANGED <<books, songs, book, song, n, i, bestMatch, allPairs,
                   assignments, usedSongIds, assignedBookIds, err, log, localFactors>>

\* generateScoringFactors(b, s, songVec, tagScore, vectorScore, penaltyFactors)
\* with the arguments its four callers compute for the pair: the pushes
CallGenerateScoringFactors(b, s) ==
    /\ pc = "idle"
    /\ op' = "generateScoringFactors" /\ pc' = "sort"
    /\ book' = b /\ song' = s
    /\ LET songVibeVector == DeriveVibeVector(s.audio)
           tagScore == JaccardSimilarity(b.vibeTags, s.vibeTags)
           vectorScore == CosineSimilarity(b.vibeVector, songVibeVector)
           penalties == CalculatePenalties(b, songVibeVector, s.audio)
       IN /\ args' = <<b, s, songVibeVector, tagScore, vectorScore, penalties.factors>>
          /\ localFactors' = FactorsBeforeSort(b, s, songVibeVector, tagScore,
                                               vectorScore, penalties.factors)
    /\ UNCHANGED <<books, songs, n, i, bestMatch, allPairs, assignments,
                   usedSongIds, assignedBookIds, ret, err, log>>

\* return factors.sort(...).slice(0, 3): sort() orders factors itself
GenerateScoringFactorsReturn ==
    /\ op = "generateScoringFactors" /\ pc = "sort"
    /\ pc' = "returned"
    /\ localFactors' = SortByContribution(localFactors)
    /\ ret' = GenerateScoringFactors(args[1], args[2], args[3], args[4], args[5], args[6])
    /\ UNCHANGED <<books, songs, op, book, song, n, i, bestMatch, allPairs,
                   assignments, usedSongIds, assignedBookIds, err, args, log>>

\* matchAllBooksUniquely(bs, ss): the scoring loops, the sort and the three
\* empty collections
CallMatchAllBooksUniquely(bs, ss) ==
    /\ pc = "idle"
    /\ op' = "matchAllBooksUniquely" /\ pc' = "commit"
    /\ args' = <<bs, ss>>
    /\ books' = bs /\ songs' = ss
    /\ allPairs' = SortedPairs(bs, ss)
    /\ assignments' = <<>> /\ usedSongIds' = {} /\ assignedBookIds' = {}
    /\ i' = 1
    /\ UNCHANGED <<book, song, n, bestMatch, ret, err, log, localFactors>>

\* one iteration of for (const pair of allPairs)
CommitStep ==
    /\ op = "matchAllBooksUniquely" /\ pc = "commit" /\ i <= Len(allPairs)
    /\ LET pair == allPairs[i]
           bookId == pair.book.id
           songId == pair.song.id
       IN IF SkipPair(bookId, songId, assignedBookIds, usedSongIds)
          THEN /\ pc' = "commit"
               /\ UNCHANGED <<assignments, usedSongIds, assignedBookIds>>
          ELSE /\ assignments' = MapSet(assignments, bookId, pair.result)
               /\ usedSongIds' = usedSongIds \cup {songId}
               /\ assignedBookIds' = assignedBookIds \cup {bookId}
               /\ pc' = IF AllAssigned(assignedBookIds', books) THEN "break" ELSE "commit"
    /\ i' = i + 1
    /\ UNCHANGED <<books, songs, op, book, song, n, bestMatch, allPairs, ret, err,
                   args, log, localFactors>>

\* return assignments, after the break or the last pair
MatchAllBooksUniquelyReturn ==
    /\ op = "matchAllBooksUniquely"
    /\ pc = "break" \/ (pc = "commit" /\ i > Len(allPairs))
    /\ pc' = "returned"
    /\ ret' = assignments
    /\ UNCHANGED <<books, songs, op, book, song, n, i, bestMatch, allPairs,
                   assignments, usedSongIds, assignedBookIds, err, args, log, localFactors>>

Next ==
    \/ \E b \in BookCatalog, ss \in SongLists : CallMatchThemeSong(b, ss)
    \/ MatchThemeSongStep
    \/ MatchThemeSongEnd
    \/ \E b \in BookCatalog, ss \in SongLists, k \in TopNs : CallGetTopMatches(b, ss, k)
    \/ \E b \in BookCatalog, s \in SongCatalog : CallGetMatchResultForSong(b, s)
    \/ \E b \in BookCatalog, s \in SongCatalog : CallCalculatePenalties(b, s)
    \/ \E s \in SongCatalog : CallDeriveVibeVector(s.audio)
    \/ \E bs \in BookLists, ss \in SongLists : CallMatchAllBooksUniquely(bs, ss)
    \/ CommitStep
    \/ MatchAllBooksUniquelyReturn

Spec == Init /\ [][Next]_vars

\* the pair operations alone, over PairBooks and PairSongs
NextPair ==
    \/ \E b \in PairBooks, s \in PairSongs : CallCalculatePenalties(b, s)
    \/ \E b \in PairBooks, s \in PairSongs : CallGetMatchResultForSong(b, s)

SpecPair == Init /\ [][NextPair]_vars

\* the number of getMatchResultForSong calls in the log l
Calls(l) == Cardinality({j \in 1..Len(l) : l[j].op = "getMatchResultForSong"})

\* the caller takes the returned value and goes on to its next call.  It keeps
\* the arguments and the result of a getMatchResultForSong call, and of the
\* other calls made since then the name of the last one.
CallerContinues ==
    /\ pc = "returned"
    /\ IF op = "getMatchResultForSong"
       THEN /\ Calls(log) < MaxCalls
            /\ log' = Append(log, [op |-> op, args |-> args, ret |-> ret])
       ELSE log' = (IF log # <<>> /\ log[Len(log)].op # "getMatchResultForSong"
                    THEN SubSeq(log, 1, Len(log) - 1) ELSE log)
                       \o <<[op |-> op]>>
    /\ op' = "none" /\ pc' = "idle"
    /\ books' = <<>> /\ songs' = <<>>
    /\ book' = NoBook /\ song' = NoSong /\ n' = 0 /\ i' = 0
    /\ bestMatch' = <<>> /\ allPairs' = <<>> /\ assignments' = <<>>
    /\ usedSongIds' = {} /\ assignedBookIds' = {}
    /\ ret' = <<>> /\ err' = "" /\ args' = <<>> /\ localFactors' = <<>>

\* getMatchResultForSong called again and again, with calls of
\* calculatePenalties and getTopMatches in between
NextRepeat ==
    \/ \E b \in RepeatBooks, s \in RepeatSongs : CallGetMatchResultForSong(b, s)
    \/ \E b \in RepeatBooks, s \in RepeatSongs : CallCalculatePenalties(b, s)
    \/ \E b \in RepeatBooks, s \in RepeatSongs : CallGetTopMatches(b, <<s>>, 1)
    \/ CallerContinues

SpecRepeat == Init /\ [][NextRepeat]_vars

\* getMatchResultForSong on well-formed and malformed books and songs
NextMalformed ==
    \E b \in BookCatalog \cup MalformedBooks, s \in SongCatalog \cup MalformedSongs :
        CallGetMatchResultForSongAny(b, s)

SpecMalformed == Init /\ [][NextMalformed]_vars

\* generateScoringFactors, and matchThemeSong on one song, over FactorBooks
\* and FactorSongs
NextFactors ==
    \/ \E b \in FactorBooks, s \in FactorSongs : CallGenerateScoringFactors(b, s)
    \/ GenerateScoringFactorsReturn
    \/ \E b \in FactorBooks, s \in FactorSongs : CallMatchThemeSong(b, <<s>>)
    \/ MatchThemeSongStep
    \/ MatchThemeSongEnd

SpecFactors == Init /\ [][NextFactors]_vars

\* the exported helpers alone, over TagLists, Vectors and AudioGrid
NextFn ==
    \/ \E t1 \in TagLists, t2 \in TagLists : CallJaccardSimilarity(t1, t2)
    \/ \E v1 \in Vectors, v2 \in Vectors : CallCosineSimilarity(v1, v2)
    \/ \E audio \in AudioGrid : CallDeriveVibeVector(audio)

SpecFn == Init /\ [][NextFn]_vars

-----------------------------------------------------------------------------
(* Properties *)

Returned(name) == op = name /\ pc = "returned"

\* ids of a list of books or songs
Ids(list) == {list[j].id : j \in 1..Len(list)}

\* no two entries of the Map m hold a song of the same id
SongIdsDistinct(m) ==
    \A a, b \in 1..Len(m) : a # b => m[a].value.song.id # m[b].value.song.id

\* the MatchResults the finished call returned, each with the books it can be of
ReturnedResults ==
    IF pc # "returned" THEN {}
    ELSE IF op \in {"matchThemeSong", "getTopMatches", "getMatchResultForSong"}
    THEN {[of |-> {book}, result |-> ret[j]] : j \in 1..Len(ret)}
    ELSE IF op = "matchAllBooksUniquely"
    THEN {[of |-> {b \in Range(books) : b.id = ret[j].key}, result |-> ret[j].value] :
             j \in 1..Len(ret)}
    ELSE {}

\* C1: in matchAllBooksUniquely, after every step of the commit loop and in
\* the returned map, no song id is the song of more than one entry, whatever
\* the lists (repeated ids included).
C1_NoSongAssignedTwice ==
    op = "matchAllBooksUniquely" =>
        /\ SongIdsDistinct(assignments)
        /\ pc = "returned" => SongIdsDistinct(ret)

\* C1 witness: two books of different ids competed for two different songs
\* of one id; the second pair was skipped and the call returned one entry.
C1_Witness ==
    /\ Returned("matchAllBooksUniquely")
    /\ Len(books) = 2 /\ books[1].id # books[2].id
    /\ Len(songs) = 2 /\ songs[1].id = songs[2].id /\ songs[1] # songs[2]
    /\ Len(ret) = 1

\* C2 as stated: with N books and M >= N songs the map has exactly N entries
\* of pairwise distinct song ids.
C2_Original ==
    (Returned("matchAllBooksUniquely") /\ Len(songs) >= Len(books)) =>
        /\ Len(ret) = Len(books)
        /\ SongIdsDistinct(ret)

\* C2 amended: with N books of pairwise distinct ids and songs of at least N
\* different ids, the map has exactly N entries of pairwise distinct song ids.
C2_ExactlyNEntries ==
    (/\ Returned("matchAllBooksUniquely")
     /\ Cardinality(Ids(books)) = Len(books)
     /\ Cardinality(Ids(songs)) >= Len(books)) =>
        /\ Len(ret) = Len(books)
        /\ SongIdsDistinct(ret)

\* C2 witness: two books of distinct ids and two songs of distinct ids gave
\* two entries.
C2_Witness ==
    /\ Returned("matchAllBooksUniquely")
    /\ Len(books) = 2 /\ Cardinality(Ids(books)) = 2
    /\ Cardinality(Ids(songs)) = 2
    /\ Len(ret) = 2

\* C3: the map of matchAllBooksUniquely never has more than
\* min(|books|, |songs|) entries, after every step of the commit loop and
\* when returned.
C3_AtMostMinEntries ==
    op = "matchAllBooksUniquely" =>
        /\ Len(assignments) <= Min(Len(books), Len(songs))
        /\ pc = "returned" => Len(ret) <= Min(Len(books), Len(songs))

\* C3 witness: two books, one song, and the one entry the song allows.
C3_Witness ==
    /\ Returned("matchAllBooksUniquely")
    /\ Len(books) = 2 /\ Len(songs) = 1
    /\ Len(ret) = 1

\* C4: for a non-empty song list matchThemeSong returns the result of the
\* song of maximal totalScore, and among songs of that score the first in
\* the list.
C4_BestIsFirstMaximum ==
    (op = "matchThemeSong" /\ pc \in {"returned", "thrown"} /\ Len(songs) > 0) =>
        /\ pc = "returned" /\ Len(ret) = 1
        /\ LET scored == [j \in 1..Len(songs) |-> MatchThemeSongResult(book, songs[j])]
           IN \E j \in 1..Len(songs) :
                /\ ret[1] = scored[j]
                /\ \A k \in 1..Len(songs) : scored[k].totalScore <= scored[j].totalScore
                /\ \A k \in 1..(j - 1) : scored[k].totalScore < scored[j].totalScore

\* C4 witness: two different songs tie for the highest score and the call
\* returned.
C4_Witness ==
    /\ Returned("matchThemeSong")
    /\ Len(songs) = 2 /\ songs[1] # songs[2]
    /\ MatchThemeSongResult(book, songs[1]).totalScore
         = MatchThemeSongResult(book, songs[2]).totalScore

\* C5: matchThemeSong with an empty song list ends in the error
\* 'No songs available for matching', for every book; it returns nothing,
\* and no call returns null.
C5_EmptyListThrows ==
    /\ (op = "matchThemeSong" /\ pc \in {"returned", "thrown"} /\ songs = <<>>) =>
          (pc = "thrown" /\ err = "No songs available for matching" /\ ret = <<>>)
    /\ Returned("matchThemeSong") => ret # <<>>

\* C5 witness: matchThemeSong threw on the empty list.
C5_Witness ==
    op = "matchThemeSong" /\ pc = "thrown" /\ songs = <<>> /\ book \in BookCatalog

\* what C6 says of the list getTopMatches returned: its length, its order and
\* the order of results of equal score
TopMatchesAsClaimed ==
    /\ Len(ret) = Min(n, Len(songs))
    /\ \E f \in [1..Len(ret) -> 1..Len(songs)] :
          /\ \A a \in 1..Len(ret) : ret[a] = GetTopMatchesResult(book, songs[f[a]])
          /\ \A a, b \in 1..Len(ret) :
                a < b => /\ ret[a].totalScore >= ret[b].totalScore
                         /\ ret[a].totalScore = ret[b].totalScore => f[a] < f[b]

\* C6 as stated: for every n, getTopMatches returns min(n, |songs|) results,
\* sorted by totalScore descending, results of equal score in input order.
\* For a negative n, where min(n, |songs|) is no length, the claim is read in
\* its weakest form, as an empty list.
C6_Original ==
    Returned("getTopMatches") =>
        IF n < 0 THEN Len(ret) = 0 ELSE TopMatchesAsClaimed

\* C6 amended: the same for every integer n >= 0.
C6_TopMatches ==
    (Returned("getTopMatches") /\ n >= 0) => TopMatchesAsClaimed

\* C6 witness: two different songs of equal score were both returned, n
\* being larger than the list.
C6_Witness ==
    /\ Returned("getTopMatches")
    /\ n > Len(songs) /\ Len(ret) = 2
    /\ ret[1].song # ret[2].song
    /\ ret[1].totalScore = ret[2].totalScore

\* C7: every MatchResult returned by matchThemeSong, getTopMatches,
\* getMatchResultForSong and matchAllBooksUniquely has
\* totalScore = tagScore*0.55 + vectorScore*0.35 + penaltyScore, penaltyScore
\* being the total of calculatePenalties for the pair.
C7_TotalScoreFormula ==
    \A x \in ReturnedResults :
        LET r == x.result
        IN /\ r.totalScore = Times(r.tagScore, 55) + Times(r.vectorScore, 35)
                               + r.penaltyScore
           /\ \E b \in x.of :
                 r.penaltyScore =
                     CalculatePenalties(b, DeriveVibeVector(r.song.audio),
                                        r.song.audio).total

\* C7 witness: matchAllBooksUniquely returned an entry with a tag score, a
\* vector score and a penalty.
C7_Witness ==
    /\ Returned("matchAllBooksUniquely")
    /\ \E j \in 1..Len(ret) :
          /\ ret[j].value.penaltyScore < 0
          /\ ret[j].value.tagScore > 0
          /\ ret[j].value.vectorScore > 0

\* the guards of the five rules for the pair of the call, in rule-table order
PenaltyGuards ==
    << book.vibeVector.melancholy > 700 /\ song.audio.valence > 700,
       book.vibeVector.tension > 700 /\ song.audio.energy < 300,
       book.vibeVector.eeriness > 700 /\ DeriveVibeVector(song.audio).warmth > 700,
       book.vibeVector.hope > 700 /\ song.audio.valence < 200,
       book.vibeVector.intensity > 800 /\ song.audio.energy < 250 >>

\* -0.10, -0.05, -0.08, -0.07, -0.05
PenaltyTable == << -100000, -50000, -80000, -70000, -50000 >>

RECURSIVE FiringPenalties(_)
FiringPenalties(j) ==
    IF j > 5 THEN <<>>
    ELSE (IF PenaltyGuards[j] THEN <<PenaltyTable[j]>> ELSE <<>>) \o FiringPenalties(j + 1)

\* C8: calculatePenalties returns the sum of the constants of exactly the
\* rules whose guard is true (0 when none is, -0.10 when only the
\* melancholy/valence guard is), with one negative factor per firing rule in
\* rule-table order; an earlier rule firing skips no later rule.
C8_PenaltiesSum ==
    Returned("calculatePenalties") =>
        /\ ret[1].total = SumSeq(FiringPenalties(1))
        /\ [j \in 1..Len(ret[1].factors) |-> ret[1].factors[j].contribution]
              = FiringPenalties(1)
        /\ \A j \in 1..Len(ret[1].factors) : ret[1].factors[j].type = "negative"
        /\ (PenaltyGuards = <<TRUE, FALSE, FALSE, FALSE, FALSE>>) => ret[1].total = -100000
        /\ (\A j \in 1..5 : ~PenaltyGuards[j]) => ret[1].total = 0

\* C8 witness: the first rule and three later rules fired together.
C8_Witness ==
    /\ Returned("calculatePenalties")
    /\ PenaltyGuards[1]
    /\ Len(ret[1].factors) = 4

\* C9 as stated: the total of calculatePenalties is never below -0.15.
C9_PenaltyFloor ==
    Returned("calculatePenalties") => ret[1].total >= -150000

\* C10: topFactors of every MatchResult has at most 3 entries, in order of
\* non-increasing absolute contribution, each of type positive, negative or
\* neutral.
C10_TopFactors ==
    \A x \in ReturnedResults :
        LET f == x.result.topFactors
        IN /\ Len(f) <= 3
           /\ \A a, b \in 1..Len(f) :
                 a < b => Abs(f[a].contribution) >= Abs(f[b].contribution)
           /\ \A a \in 1..Len(f) : f[a].type \in {"positive", "negative", "neutral"}

\* C10 witness: a result whose four penalties and shared tags made five
\* factors, of which three were kept, a penalty after the larger tag factor.
C10_Witness ==
    \E x \in ReturnedResults :
        /\ x.result.penaltyScore = -280000
        /\ Len(x.result.topFactors) = 3
        /\ x.result.topFactors[1].type = "positive"
        /\ x.result.topFactors[2].type = "negative"

-----------------------------------------------------------------------------
(* The helpers: jaccardSimilarity, cosineSimilarity, deriveVibeVector *)

\* two tags that differ at most in the case of their letters
SameIgnoringCase(x, y) ==
    \/ x = y
    \/ {x, y} \subseteq {"gothic", "Gothic", "GOTHIC"}
    \/ {x, y} \subseteq {"tender", "Tender"}
    \/ {x, y} \subseteq {"folk", "Folk"}

\* some tag of t1 is, ignoring case, a tag of t2
ShareATag(t1, t2) ==
    \E j \in 1..Len(t1), k \in 1..Len(t2) : SameIgnoringCase(t1[j], t2[k])

\* the tag lists that are t with the case of some tags changed
Recased(t) ==
    {u \in TagLists :
        /\ Len(u) = Len(t)
        /\ \A j \in 1..Len(t) : SameIgnoringCase(u[j], t[j])}

\* the tag lists that are t with one of its tags written once more
Repeated(t) == {Append(t, t[j]) : j \in 1..Len(t)}

\* C11: jaccardSimilarity returns a value in [0, 1]; it returns 1 for a
\* non-empty list against itself, 0 for two empty lists, 0 when one list is
\* empty, and 0 when the lists share no tag.
C11_JaccardValues ==
    Returned("jaccardSimilarity") =>
        LET t1 == args[1]
            t2 == args[2]
            r == ret[1]
        IN /\ 0 <= r /\ r <= UNIT
           /\ (t1 = t2 /\ t1 # <<>>) => r = UNIT
           /\ (t1 = <<>> /\ t2 = <<>>) => r = 0
           /\ (t1 = <<>> \/ t2 = <<>>) => r = 0
           /\ ~ShareATag(t1, t2) => r = 0

\* a list of two tags against itself gave 1
C11_Witness ==
    /\ Returned("jaccardSimilarity")
    /\ args = <<(<<"gothic", "folk">>), (<<"gothic", "folk">>)>>
    /\ ret = <<UNIT>>

\* C12: jaccardSimilarity(T1, T2) = jaccardSimilarity(T2, T1), and neither
\* changing the case of tags nor writing a tag of either list once more
\* changes the result.
C12_JaccardSymmetricCaseRepeats ==
    Returned("jaccardSimilarity") =>
        LET t1 == args[1]
            t2 == args[2]
            r == ret[1]
        IN /\ JaccardSimilarity(t2, t1) = r
           /\ \A u \in Recased(t1) : JaccardSimilarity(u, t2) = r
           /\ \A u \in Recased(t2) : JaccardSimilarity(t1, u) = r
           /\ \A u \in Repeated(t1) : JaccardSimilarity(u, t2) = r
           /\ \A u \in Repeated(t2) : JaccardSimilarity(t1, u) = r

\* one tag in two spellings against a third spelling of it gave 1
C12_Witness ==
    /\ Returned("jaccardSimilarity")
    /\ args = <<(<<"Gothic", "gothic">>), (<<"GOTHIC">>)>>
    /\ ret = <<UNIT>>

AllZero(vec) == \A j \in 1..Len(keys) : vec[keys[j]] = 0

\* C13: cosineSimilarity(a, b) = cosineSimilarity(b, a), and the result is 0
\* whenever a or b is the all-zero vector.
C13_CosineSymmetricZero ==
    Returned("cosineSimilarity") =>
        LET vec1 == args[1]
            vec2 == args[2]
            r == ret[1]
        IN /\ CosineSimilarity(vec2, vec1) = r
           /\ (AllZero(vec1) \/ AllZero(vec2)) => r = 0

\* the all-zero vector against a vector that is not gave 0, and two different
\* vectors that are not all-zero gave a value above 0
C13_Witness ==
    /\ Returned("cosineSimilarity")
    /\ \/ AllZero(args[1]) /\ ~AllZero(args[2]) /\ ret = <<0>>
       \/ args[1] # args[2] /\ ret[1] > 0 /\ ret[1] < UNIT

\* C14: every component of deriveVibeVector(audio) is in [0, 1] when the five
\* features of audio are.
C14_DerivedInRange ==
    Returned("deriveVibeVector") =>
        ((\A f \in DOMAIN args[1] : 0 <= args[1][f] /\ args[1][f] <= ONE)
            => \A j \in 1..Len(keys) : 0 <= ret[1][keys[j]] /\ ret[1][keys[j]] <= ONE)

\* the audio that gives eeriness 1: no valence, no danceability, no warmth
C14_Witness ==
    /\ Returned("deriveVibeVector")
    /\ args = <<Audio(ONE, 0, 0, 0, 0)>>
    /\ ret[1].eeriness = ONE

-----------------------------------------------------------------------------
(* Repeated calls *)

\* the getMatchResultForSong calls that have returned: those of the log and
\* the one that has just returned
FinishedCalls ==
    {log[j] : j \in {k \in 1..Len(log) : log[k].op = "getMatchResultForSong"}}
        \cup (IF Returned("getMatchResultForSong")
              THEN {[op |-> op, args |-> args, ret |-> ret]} ELSE {})

-----------------------------------------------------------------------------
(* Malformed books and songs *)

\* a required property of the book or the song is absent
Malformed(b, s) ==
    \/ ~Has(b, "vibeTags") \/ ~Has(s, "vibeTags")
    \/ ~Has(b, "vibeVector") \/ ~Has(s, "audio")
    \/ Has(b, "vibeVector") /\ \E k \in Range(keys) : ~Has(b.vibeVector, k)
    \/ Has(s, "audio") /\ \E f \in AudioFeatures : ~Has(s.audio, f)

\* C16: getMatchResultForSong on a malformed book or song ends with an
\* error; it does not return a MatchResult.
C16_MalformedFails ==
    (op = "getMatchResultForSong" /\ pc # "idle" /\ Malformed(args[1], args[2]))
        => pc = "thrown"

-----------------------------------------------------------------------------
(* The arguments after the call *)

\* C17: once matchThemeSong, getTopMatches, getMatchResultForSong,
\* matchAllBooksUniquely, calculatePenalties or deriveVibeVector has been
\* called, the books and songs passed to it - the lists and their order, the
\* tag lists, the vibeVectors, the audio records - are as they were when the
\* call was made, at every step of the call and after it.
C17_InputsUnchanged ==
    pc # "idle" =>
        CASE op = "matchThemeSong" -> args = <<book, songs>>
          [] op = "getTopMatches" -> args = <<book, songs, n>>
          [] op = "getMatchResultForSong" -> args = <<book, song>>
          [] op = "matchAllBooksUniquely" -> args = <<books, songs>>
          [] op = "calculatePenalties" -> args[1] = book /\ args[3] = song.audio
          [] op = "deriveVibeVector" -> args = <<song.audio>>
          [] OTHER -> TRUE

\* getTopMatches returned the second of two songs first, and songs still has
\* it second
C17_Witness ==
    /\ Returned("getTopMatches")
    /\ Len(songs) = 2 /\ Len(ret) = 2
    /\ songs[1] # songs[2]
    /\ ret[1].song = songs[2]
    /\ ret[1].totalScore > ret[2].totalScore

-----------------------------------------------------------------------------
(* The commit loop of matchAllBooksUniquely *)

\* neither the book id nor the song id of the pair p is committed
Free(p) == p.book.id \notin assignedBookIds /\ p.song.id \notin usedSongIds

\* C18: every iteration of the commit loop examines a pair whose totalScore
\* is at most that of every pair examined before; it commits the pair exactly
\* when neither its book id nor its song id is committed, and a pair it
\* commits has the highest totalScore of all pairs whose book id and song id
\* are both uncommitted.
C18_GreedyOrder ==
    [][(op = "matchAllBooksUniquely" /\ pc = "commit" /\ i <= Len(allPairs)) =>
          LET pair == allPairs[i]
          IN /\ i' = i + 1
             /\ \A k \in 1..(i - 1) :
                    allPairs[k].result.totalScore >= pair.result.totalScore
             /\ Free(pair) =>
                    /\ assignments' = Append(assignments,
                                             [key |-> pair.book.id, value |-> pair.result])
                    /\ assignedBookIds' = assignedBookIds \cup {pair.book.id}
                    /\ usedSongIds' = usedSongIds \cup {pair.song.id}
                    /\ \A k \in 1..Len(allPairs) :
                           Free(allPairs[k]) =>
                               allPairs[k].result.totalScore <= pair.result.totalScore
             /\ ~Free(pair) =>
                    /\ assignments' = assignments
                    /\ assignedBookIds' = assignedBookIds
                    /\ usedSongIds' = usedSongIds
      ]_vars

\* two pairs of different scores were committed, and a pair between them was
\* examined and passed over
C18_Witness ==
    /\ op = "matchAllBooksUniquely"
    /\ Len(assignments) = 2 /\ i > 3
    /\ assignments[1].value.totalScore > assignments[2].value.totalScore

\* where the pair at place k of the enumeration e stands after a stable sort
\* by descending totalScore
StablePlace(e, k) ==
    1 + Cardinality({j \in 1..Len(e) : e[j].result.totalScore > e[k].result.totalScore})
      + Cardinality({j \in 1..(k - 1) : e[j].result.totalScore = e[k].result.totalScore})

\* C19: the commit loop examines pairs of equal totalScore in the order of the
\* enumeration - book-major, song-minor - so of two uncommitted pairs that tie
\* the one enumerated first is committed; ids play no part in the order.
\* allPairs is compared with the enumeration when the loop starts; the loop
\* does not change it.
C19_TiesInEnumerationOrder ==
    op = "matchAllBooksUniquely" =>
        /\ (pc = "commit" /\ i = 1) =>
               LET e == AllPairs(books, songs)
               IN /\ Len(allPairs) = Len(e)
                  /\ \A k \in 1..Len(e) : allPairs[StablePlace(e, k)] = e[k]
        /\ \A j \in 1..Len(assignments) :
               \A k \in 1..Len(allPairs) :
                   (/\ allPairs[k].result.totalScore = assignments[j].value.totalScore
                    /\ allPairs[k].book.id
                           \notin {assignments[x].key : x \in 1..(j - 1)}
                    /\ allPairs[k].song.id
                           \notin {assignments[x].value.song.id : x \in 1..(j - 1)})
                   => \E f \in 1..k :
                          /\ allPairs[f].book.id = assignments[j].key
                          /\ allPairs[f].result = assignments[j].value

\* four pairs of one score, with the ids against the enumeration order (b2
\* before b1, s2 before s1): the first and the last pair of the enumeration
\* were committed
C19_Witness ==
    /\ Returned("matchAllBooksUniquely")
    /\ Len(books) = 2 /\ Len(songs) = 2
    /\ books[1].id = "b2" /\ books[2].id = "b1"
    /\ songs[1].id = "s2" /\ songs[2].id = "s1"
    /\ \A k \in 1..Len(allPairs) :
           allPairs[k].result.totalScore = allPairs[1].result.totalScore
    /\ Len(ret) = 2
    /\ ret[1].key = "b2" /\ ret[1].value.song.id = "s2"
    /\ ret[2].key = "b1" /\ ret[2].value.song.id = "s1"

-----------------------------------------------------------------------------
(* The thresholds of calculatePenalties *)

\* the factor of the rule named label is among the returned factors
Fired(label) ==
    \E j \in 1..Len(ret[1].factors) : ret[1].factors[j].factor = label

\* C20: a rule of calculatePenalties does not fire when a value it compares
\* is equal to its threshold: melancholy, tension, eeriness or hope 0.7,
\* intensity 0.8, valence 0.7 or 0.2, energy 0.3 or 0.25, derived warmth 0.7.
C20_StrictThresholds ==
    Returned("calculatePenalties") =>
        LET v == book.vibeVector
            audio == song.audio
            songVec == args[2]
        IN /\ (v.melancholy = 700 \/ audio.valence = 700)
                  => ~Fired("Song too upbeat for melancholic book")
           /\ (v.tension = 700 \/ audio.energy = 300)
                  => ~Fired("Song too mellow for high-tension book")
           /\ (v.eeriness = 700 \/ songVec.warmth = 700)
                  => ~Fired("Song too warm for eerie book")
           /\ (v.hope = 700 \/ audio.valence = 200)
                  => ~Fired("Song too sad for hopeful book")
           /\ (v.intensity = 800 \/ audio.energy = 250)
                  => ~Fired("Song too mellow for intense book")

\* a book above every threshold and a song with valence 0.7, energy 0.3 and
\* derived warmth 0.7 drew no penalty
C20_Witness ==
    /\ Returned("calculatePenalties")
    /\ book.vibeVector.melancholy = 750 /\ book.vibeVector.tension = 750
    /\ book.vibeVector.eeriness = 750 /\ book.vibeVector.intensity = 850
    /\ song.audio.valence = 700 /\ song.audio.energy = 300
    /\ args[2].warmth = 700
    /\ ret[1].total = 0 /\ ret[1].factors = <<>>

-----------------------------------------------------------------------------
(* generateScoringFactors *)

\* C21: a fired penalty whose factor is not among the returned topFactors has
\* three returned factors of at least its absolute contribution before it;
\* there are pairs for which this happens, so topFactors need not hold every
\* fired penalty.
C21_DroppedPenaltyIsOutranked ==
    Returned("generateScoringFactors") =>
        \A j \in 1..Len(args[6]) :
            args[6][j] \notin Range(ret) =>
                /\ Len(ret) = 3
                /\ \A k \in 1..3 :
                       Abs(ret[k].contribution) >= Abs(args[6][j].contribution)

\* a rule fired for the pair, its factor is not returned, and the three
\* returned factors all have a larger absolute contribution
C21_Witness ==
    /\ Returned("generateScoringFactors")
    /\ Len(ret) = 3
    /\ \E j \in 1..Len(args[6]) :
           /\ args[6][j] \notin Range(ret)
           /\ args[6][j].contribution < 0
           /\ \A k \in 1..3 :
                  Abs(ret[k].contribution) > Abs(args[6][j].contribution)

\* the lower-cased tags of the list t that the list u has, ignoring case,
\* each once, in the order of their first occurrence in t
RECURSIVE SharedInOrder(_, _)
SharedInOrder(t, u) ==
    IF t = <<>> THEN <<>>
    ELSE LET front == SharedInOrder(SubSeq(t, 1, Len(t) - 1), u)
             x == t[Len(t)]
         IN IF /\ \E k \in 1..Len(u) : SameIgnoringCase(x, u[k])
               /\ \A k \in 1..(Len(t) - 1) : ~SameIgnoringCase(x, t[k])
            THEN Append(front, ToLowerCase(x)) ELSE front

\* the places of localFactors that hold a factor of the given name
Places(name) == {j \in 1..Len(localFactors) : localFactors[j].factor = name}

\* C22: before the sort, factors holds one "Shared vibes" factor when the
\* book and the song share a tag ignoring case and none otherwise; its
\* contribution is tagScore * 0.55 and it lists the first three shared tags,
\* lower-cased, in the order of their first occurrence in the book's list.
C22_SharedVibesFactor ==
    (op = "generateScoringFactors" /\ pc = "sort") =>
        LET shared == SharedInOrder(book.vibeTags, song.vibeTags)
        IN /\ Cardinality(Places("Shared vibes")) = (IF Len(shared) > 0 THEN 1 ELSE 0)
           /\ \A j \in Places("Shared vibes") :
                  /\ localFactors[j].contribution = (args[4] * 55) \div 100
                  /\ Len(localFactors[j].detail) <= 3
                  /\ localFactors[j].detail
                        = SubSeq(shared, 1, IF Len(shared) < 3 THEN Len(shared) ELSE 3)

\* four tags are shared, two of them written in capitals in the book's list
\* and one written twice; the factor lists the first three
C22_Witness ==
    /\ op = "generateScoringFactors" /\ pc = "sort"
    /\ book.vibeTags = <<"Tender", "Gothic", "melancholic", "GOTHIC", "nostalgic">>
    /\ song.vibeTags = <<"nostalgic", "gothic", "melancholic", "tender", "folk">>
    /\ localFactors[1].factor = "Shared vibes"
    /\ localFactors[1].detail = <<"tender", "gothic", "melancholic">>

\* 1 - |bookValue - songValue| for the dimension keys[j] of the pair
Similarity(j) == ONE - Abs(book.vibeVector[keys[j]] - args[3][keys[j]])

\* the dimensions before keys[j] in the order of the sort: those of greater
\* similarity and those of the same similarity that come earlier in keys
Ahead(j) ==
    {k \in 1..Len(keys) :
        \/ Similarity(k) > Similarity(j)
        \/ Similarity(k) = Similarity(j) /\ k < j}

\* the dimension at place r of that order
Ranked(r) == CHOOSE j \in 1..Len(keys) : Cardinality(Ahead(j)) = r - 1

\* the alignment factors the two first dimensions of that order give
ExpectedAlignment ==
    LET one(j) == IF Similarity(j) > 800
                  THEN <<[factor       |-> "Strong alignment",
                          detail       |-> <<keys[j]>>,
                          contribution |-> (((args[5] * 35) \div 100) * 30) \div 100,
                          type         |-> "positive"]>>
                  ELSE <<>>
    IN one(Ranked(1)) \o one(Ranked(2))

\* C23: before the sort, factors holds one "Strong <dimension> alignment"
\* factor for each of the two dimensions of highest similarity - equal
\* similarities in the order melancholy..pace - whose similarity is above
\* 0.8, each with contribution vectorScore * 0.35 * 0.3, and no other; a
\* similarity of exactly 0.8 gives none.
C23_AlignmentFactors ==
    (op = "generateScoringFactors" /\ pc = "sort") =>
        LET at == Places("Strong alignment")
            first == Cardinality(Places("Shared vibes"))
        IN /\ Cardinality(at) = Len(ExpectedAlignment)
           /\ Cardinality(at) <= 2
           /\ \A j \in 1..Len(ExpectedAlignment) :
                  localFactors[first + j] = ExpectedAlignment[j]

\* the second dimension of the order has similarity exactly 0.8: one
\* alignment factor, for the first
C23_Witness ==
    /\ op = "generateScoringFactors" /\ pc = "sort"
    /\ Similarity(Ranked(1)) > 800
    /\ Similarity(Ranked(2)) = 800
    /\ Cardinality(Places("Strong alignment")) = 1

C28_UpbeatAndSadExclusive ==
    Returned("calculatePenalties") =>
        /\ ~(/\ Fired("Song too upbeat for melancholic book")
             /\ Fired("Song too sad for hopeful book"))
        /\ Len(ret[1].factors) <= 4
        /\ ret[1].total >= -280000

\* the book is above the thresholds of both rules; with the upbeat rule three
\* others fired and the total is -0.28
C28_Witness ==
    /\ Returned("calculatePenalties")
    /\ book.vibeVector.melancholy > 700 /\ book.vibeVector.hope > 700
    /\ Fired("Song too upbeat for melancholic book")
    /\ Len(ret[1].factors) = 4
    /\ ret[1].total = -280000

-----------------------------------------------------------------------------
(* matchAllBooksUniquely and getTopMatches against the single-pair calls *)

\* the ids of the list are pairwise distinct
IdsPairwiseDistinct(list) ==
    \A a, b \in 1..Len(list) : a # b => list[a].id # list[b].id

\* C25: for books of pairwise distinct ids and songs of pairwise distinct
\* ids, the MatchResult the returned map holds for a book b equals
\* getMatchResultForSong(b, s) for the song s of the list that has the id of
\* the entry's song: same scores, same topFactors.
C25_EntryReproducedByLookup ==
    (/\ Returned("matchAllBooksUniquely")
     /\ IdsPairwiseDistinct(books) /\ IdsPairwiseDistinct(songs)) =>
        \A j \in 1..Len(ret) :
            \A b \in Range(books), s \in Range(songs) :
                (b.id = ret[j].key /\ s.id = ret[j].value.song.id) =>
                    ret[j].value = GetMatchResultForSong(b, s)

\* two books were assigned different songs, the first entry with factors and
\* one entry with a penalty
C25_Witness ==
    /\ Returned("matchAllBooksUniquely")
    /\ IdsPairwiseDistinct(books) /\ IdsPairwiseDistinct(songs)
    /\ Len(ret) = 2
    /\ ret[1].value.topFactors # <<>>
    /\ \E j \in 1..2 : ret[j].value.penaltyScore < 0

\* bestMatch of matchThemeSong(b, ss) after the loop; <<>> is null
RECURSIVE BestMatchOf(_, _)
BestMatchOf(b, ss) ==
    IF ss = <<>> THEN <<>>
    ELSE KeepBest(BestMatchOf(b, SubSeq(ss, 1, Len(ss) - 1)),
                  MatchThemeSongResult(b, ss[Len(ss)]))

\* C26: for a non-empty song list and n >= 1, the first element of
\* getTopMatches(book, songs, n) has the song and the totalScore of
\* matchThemeSong(book, songs), also when songs tie for the highest score.
C26_FirstIsBestMatch ==
    (Returned("getTopMatches") /\ Len(songs) > 0 /\ n >= 1) =>
        /\ Len(ret) >= 1
        /\ ret[1].song = BestMatchOf(book, songs)[1].song
        /\ ret[1].totalScore = BestMatchOf(book, songs)[1].totalScore

\* two different songs tie for the highest score
C26_Witness ==
    /\ Returned("getTopMatches") /\ n >= 1
    /\ Len(songs) = 2 /\ songs[1] # songs[2]
    /\ GetTopMatchesResult(book, songs[1]).totalScore
         = GetTopMatchesResult(book, songs[2]).totalScore
    /\ ret[1].song = songs[1]

\* the book ids and the song ids of the entries of the Map m
Keys(m) == {m[j].key : j \in 1..Len(m)}
SongIdsOf(m) == {m[j].value.song.id : j \in 1..Len(m)}

\* C27: when matchAllBooksUniquely returns, every book id of books has an
\* entry or every song id of songs is the song of an entry.
C27_MaximalMatching ==
    Returned("matchAllBooksUniquely") =>
        \/ Ids(books) \subseteq Keys(ret)
        \/ Ids(songs) \subseteq SongIdsOf(ret)

\* two books of different ids and one song: a book is left without an entry
\* and the song is used
C27_Witness ==
    /\ Returned("matchAllBooksUniquely")
    /\ Len(songs) = 1
    /\ ~(Ids(books) \subseteq Keys(ret))
    /\ Ids(songs) \subseteq SongIdsOf(ret)

\* C29: called with an empty song list, getTopMatches returns an empty list
\* and matchAllBooksUniquely an empty map, for every book list and every n;
\* neither throws.
C29_EmptySongList ==
    /\ (op = "getTopMatches" /\ songs = <<>>) =>
            pc = "returned" /\ err = "" /\ ret = <<>>
    /\ (op = "matchAllBooksUniquely" /\ songs = <<>>) =>
            /\ err = "" /\ allPairs = <<>> /\ assignments = <<>>
            /\ pc \in {"commit", "returned"}
            /\ pc = "returned" => ret = <<>>

\* getTopMatches returned for an empty list and n >= 1
C29_Witness ==
    /\ Returned("getTopMatches")
    /\ songs = <<>> /\ n >= 1
    /\ ret = <<>>

\* C30 as stated: for every book b of the list whose id has an entry in the
\* returned map, the entry's totalScore is at most that of
\* matchThemeSong(b, songs), and the book of the first committed pair has
\* exactly the result of matchThemeSong.
C30_Original ==
    Returned("matchAllBooksUniquely") =>
        /\ \A j \in 1..Len(ret) : \A b \in Range(books) :
               b.id = ret[j].key =>
                   ret[j].value.totalScore <= BestMatchOf(b, songs)[1].totalScore
        /\ allPairs # <<>> =>
               /\ ret[1].key = allPairs[1].book.id
               /\ ret[1].value = BestMatchOf(allPairs[1].book, songs)[1]

\* C30 amended: the bound holds for every book when the book ids are pairwise
\* distinct; the book of the first committed pair has exactly the result of
\* matchThemeSong, whatever the lists.
C30_EntryAtMostBest ==
    Returned("matchAllBooksUniquely") =>
        /\ IdsPairwiseDistinct(books) =>
               \A j \in 1..Len(ret) : \A b \in Range(books) :
                   b.id = ret[j].key =>
                       ret[j].value.totalScore <= BestMatchOf(b, songs)[1].totalScore
        /\ allPairs # <<>> =>
               /\ ret[1].key = allPairs[1].book.id
               /\ ret[1].value = BestMatchOf(allPairs[1].book, songs)[1]

\* two books of different ids prefer the same song: the second entry is
\* below what matchThemeSong gives its book
C30_Witness ==
    /\ Returned("matchAllBooksUniquely")
    /\ IdsPairwiseDistinct(books)
    /\ Len(ret) = 2
    /\ \E b \in Range(books) :
           /\ b.id = ret[2].key
           /\ ret[2].value.totalScore < BestMatchOf(b, songs)[1].totalScore

====
